---- MODULE Spec2Model ----
(***************************************************************************)
(* react-native-set-version: the version model (versionUtils: trimText,    *)
(* versionEquals, versionStringToVersion, updateVersionBuild,              *)
(* versionToVersionCode) and the update flow of src/index.js that reads a  *)
(* platform file, decides the next version and writes it back.             *)
(*                                                                         *)
(* JavaScript strings are sequences of one-character strings.  JavaScript  *)
(* numbers are records [nan, val]: NaN is a value of its own (it is never  *)
(* === to anything and every ordering comparison with it is false).        *)
(* The characters of the model are the decimal digits, "-", "a", "N" and   *)
(* "."; ToNumber is JavaScript's string-to-number coercion on them.        *)
(***************************************************************************)
EXTENDS Integers, Sequences, FiniteSets

VARIABLES
  versionString, parsed,                 \* versionStringToVersion: input, result
  currentVersion, newVersion, updated,   \* updateVersionBuild: inputs, outcome
  versionA, versionB, codeA, codeB,      \* versionToVersionCode: inputs, results
  packageJson, plist, gradle, manifest,  \* package.json, Info.plist, build.gradle,
                                         \* AndroidManifest.xml
  run                                    \* the last run of changeVersion

vars == <<versionString, parsed, currentVersion, newVersion, updated,
          versionA, versionB, codeA, codeB, packageJson, plist, gradle, manifest, run>>

parseVars  == <<versionString, parsed>>
updateVars == <<currentVersion, newVersion, updated>>
encodeVars == <<versionA, versionB, codeA, codeB>>
flowVars   == <<packageJson, plist, gradle, manifest, run>>

----------------------------------------------------------------------------
(* Bounds of the model *)

\* longest version string given to versionStringToVersion
MaxLen == 6
\* major, minor and patch of the descriptors given to updateVersionBuild: 0..MaxField
MaxField == 1
\* builds given to updateVersionBuild: 0..MaxLowBuild and maxBuilds -+ BuildMargin
MaxLowBuild == 2
BuildMargin == 2
\* fields given to versionToVersionCode: 0..MaxEncLow and 10, and 99 for major and build
MaxEncLow == 1
\* builds of the version strings of the update flow: 0..MaxFlowBuild
MaxFlowBuild == 2

----------------------------------------------------------------------------
(* JavaScript numbers and strings *)

NaN == [nan |-> TRUE, val |-> 0]
Num(n) == [nan |-> FALSE, val |-> n]

\* a === b on numbers
StrictEq(a, b) == ~a.nan /\ ~b.nan /\ a.val = b.val
\* a < b on numbers
Less(a, b) == ~a.nan /\ ~b.nan /\ a.val < b.val
\* a >= b on numbers
GreaterEq(a, b) == ~a.nan /\ ~b.nan /\ a.val >= b.val
\* a + n
Plus(a, n) == IF a.nan THEN NaN ELSE Num(a.val + n)

DigitChars == <<"0", "1", "2", "3", "4", "5", "6", "7", "8", "9">>
IsDigit(c) == \E i \in 1..10 : DigitChars[i] = c
DigitVal(c) == (CHOOSE i \in 1..10 : DigitChars[i] = c) - 1
AllDigits(s) == \A i \in 1..Len(s) : IsDigit(s[i])

\* the value of a string of decimal digits
RECURSIVE DecimalValue(_)
DecimalValue(s) ==
  IF s = <<>> THEN 0
  ELSE 10 * DecimalValue(SubSeq(s, 1, Len(s) - 1)) + DigitVal(s[Len(s)])

\* unary plus on a string: "" is 0, a decimal literal with an optional "-" is its
\* value, any other text of the model's characters is NaN
ToNumber(s) ==
  IF s = <<>> THEN Num(0)
  ELSE IF AllDigits(s) THEN Num(DecimalValue(s))
  ELSE IF s[1] = "-" /\ Len(s) > 1 /\ AllDigits(Tail(s)) THEN Num(0 - DecimalValue(Tail(s)))
  ELSE NaN

\* Number.prototype.toString of a non-negative integer
RECURSIVE NatToString(_)
NatToString(n) ==
  IF n < 10 THEN <<DigitChars[n + 1]>>
  ELSE NatToString(n \div 10) \o <<DigitChars[(n % 10) + 1]>>

\* Number.prototype.toString
NumberToString(a) ==
  IF a.nan THEN <<"N", "a", "N">>
  ELSE IF a.val < 0 THEN <<"-">> \o NatToString(0 - a.val)
  ELSE NatToString(a.val)

\* String.prototype.padEnd(targetLength, "0")
RECURSIVE PadEnd(_, _)
PadEnd(s, targetLength) ==
  IF Len(s) >= targetLength THEN s ELSE PadEnd(s \o <<"0">>, targetLength)

\* String.prototype.padStart(targetLength, "0")
RECURSIVE PadStart(_, _)
PadStart(s, targetLength) ==
  IF Len(s) >= targetLength THEN s ELSE PadStart(<<"0">> \o s, targetLength)

\* String.prototype.search(/[^\d]/): the 0-based index of the first character that
\* is not a digit, -1 when there is none
RECURSIVE SearchFrom(_, _)
SearchFrom(s, i) ==
  IF i > Len(s) THEN -1
  ELSE IF ~IsDigit(s[i]) THEN i - 1
  ELSE SearchFrom(s, i + 1)
SearchNonDigit(s) == SearchFrom(s, 1)

\* String.prototype.split('.'): always at least one part; "" splits to <<"">>
RECURSIVE SplitFrom(_, _, _)
SplitFrom(s, i, cur) ==
  IF i > Len(s) THEN <<cur>>
  ELSE IF s[i] = "." THEN <<cur>> \o SplitFrom(s, i + 1, <<>>)
  ELSE SplitFrom(s, i + 1, Append(cur, s[i]))
Split(s) == SplitFrom(s, 1, <<>>)

----------------------------------------------------------------------------
(* versionUtils *)

trimText(s) ==
  LET indexOfString == SearchNonDigit(s)
  IN  IF indexOfString > 0 THEN SubSeq(s, 1, indexOfString) ELSE s

\* versionParts[i] || dflt (i is 0-based): an absent part is undefined and an empty
\* part is "", both falsy
PartOr(versionParts, i, dflt) ==
  IF i + 1 <= Len(versionParts) /\ versionParts[i + 1] # <<>>
  THEN versionParts[i + 1] ELSE dflt

\* versionStringToVersion with '0' as the default of every part but the build
versionStringToVersionMinorZero(s) ==
  LET versionParts == Split(s)
  IN  [major |-> ToNumber(trimText(PartOr(versionParts, 0, <<"0">>))),
       minor |-> ToNumber(trimText(PartOr(versionParts, 1, <<"0">>))),
       patch |-> ToNumber(trimText(PartOr(versionParts, 2, <<"0">>))),
       build |-> ToNumber(trimText(PartOr(versionParts, 3, <<"1">>)))]

versionStringToVersion(s) ==
  LET versionParts == Split(s)
  IN  [major |-> ToNumber(trimText(PartOr(versionParts, 0, <<"0">>))),
       minor |-> ToNumber(trimText(PartOr(versionParts, 1, <<"1">>))),
       patch |-> ToNumber(trimText(PartOr(versionParts, 2, <<"0">>))),
       build |-> ToNumber(trimText(PartOr(versionParts, 3, <<"1">>)))]

\* the build ceiling: the default of updateVersionBuild's third parameter, which no
\* caller in the repository passes
maxBuilds == 100

\* a version descriptor is a record [major, minor, patch, build] of numbers; Null is
\* the version of getIOSVersionInfo / getAndroidVersionInfo when nothing was read
Null == [null |-> TRUE]

\* a file that cannot be read (or, for Info.plist and build.gradle, whose version key
\* is not in it): every read of it throws
NoFile == [file |-> "unreadable"]

Throw(name) == [kind |-> name]
Return(v) == [kind |-> "return", version |-> v]
NoOutcome == [kind |-> "none"]

\* versionEquals without the comparison of patch
versionEqualsNoPatch(versionA_, versionB_) ==
  /\ StrictEq(versionA_.major, versionB_.major)
  /\ StrictEq(versionA_.minor, versionB_.minor)

versionEquals(versionA_, versionB_) ==
  /\ StrictEq(versionA_.major, versionB_.major)
  /\ StrictEq(versionA_.minor, versionB_.minor)
  /\ StrictEq(versionA_.patch, versionB_.patch)

\* updateVersionBuild with newBuildNumber > maxBuilds as the ceiling test
updateVersionBuildOffByOne(cur, new) ==
  IF cur = Null THEN Throw("TypeError")
  ELSE IF versionEquals(cur, new) /\ Less(new.build, cur.build)
  THEN LET newBuildNumber == Plus(cur.build, 1)
       IN  IF ~GreaterEq(Num(maxBuilds), newBuildNumber)
           THEN Throw("Error")
           ELSE Return([new EXCEPT !.build = newBuildNumber])
  ELSE Return(new)

\* updateVersionBuild that returns newVersion as it is after the ceiling test
updateVersionBuildKeepsRequested(cur, new) ==
  IF cur = Null THEN Throw("TypeError")
  ELSE IF versionEquals(cur, new) /\ Less(new.build, cur.build)
  THEN LET newBuildNumber == Plus(cur.build, 1)
       IN  IF GreaterEq(newBuildNumber, Num(maxBuilds))
           THEN Throw("Error")
           ELSE Return(new)
  ELSE Return(new)

\* the outcome of updateVersionBuild(currentVersion, newVersion): versionEquals reads
\* currentVersion.major first, a TypeError when currentVersion is null
updateVersionBuild(cur, new) ==
  IF cur = Null THEN Throw("TypeError")
  ELSE IF versionEquals(cur, new) /\ Less(new.build, cur.build)
  THEN LET newBuildNumber == Plus(cur.build, 1)
       IN  IF GreaterEq(newBuildNumber, Num(maxBuilds))
           THEN Throw("Error")
           ELSE Return([new EXCEPT !.build = newBuildNumber])
  ELSE Return(new)

\* versionToVersionCode without the padding
versionToVersionCodeNoPad(version) ==
  ToNumber(NumberToString(version.major) \o NumberToString(version.minor)
             \o NumberToString(version.patch) \o NumberToString(version.build))

versionToVersionCode(version) ==
  LET major == PadStart(NumberToString(version.major), 2)
      minor == PadStart(NumberToString(version.minor), 2)
      patch == PadStart(NumberToString(version.patch), 2)
      build == PadStart(NumberToString(version.build), 2)
  IN  ToNumber(major \o minor \o patch \o build)

----------------------------------------------------------------------------
(* The variables of the operations that are not running *)

ParseIdle  == versionString = <<>> /\ parsed = NoOutcome
UpdateIdle == currentVersion = Null /\ newVersion = Null /\ updated = NoOutcome
EncodeIdle == versionA = Null /\ versionB = Null /\ codeA = NoOutcome /\ codeB = NoOutcome
FlowIdle   ==
  packageJson = NoFile /\ plist = NoFile /\ gradle = NoFile /\ manifest = NoFile /\ run = NoOutcome

----------------------------------------------------------------------------
(* versionStringToVersion on every string of at most MaxLen characters *)

ParseChars == {"0", "2", ".", "-", "a"}
ParseStrings == UNION {[1..n -> ParseChars] : n \in 0..MaxLen}

ParseInit ==
  /\ versionString \in ParseStrings
  /\ parsed = NoOutcome
  /\ UpdateIdle /\ EncodeIdle /\ FlowIdle

Parse ==
  /\ parsed = NoOutcome
  /\ parsed' = Return(versionStringToVersion(versionString))
  /\ UNCHANGED <<versionString, updateVars, encodeVars, flowVars>>

ParseNext == Parse

SpecParse == ParseInit /\ [][ParseNext]_vars

----------------------------------------------------------------------------
(* updateVersionBuild on every pair of a current and a requested descriptor *)

Version(ma, mi, pa, bu) ==
  [major |-> Num(ma), minor |-> Num(mi), patch |-> Num(pa), build |-> Num(bu)]

UpdateBuilds ==
  (0..MaxLowBuild) \cup ((maxBuilds - BuildMargin)..(maxBuilds + BuildMargin))
UpdateVersions ==
  {Version(ma, mi, pa, bu) : ma \in 0..MaxField, mi \in 0..MaxField, pa \in 0..MaxField,
                             bu \in UpdateBuilds}

UpdateInit ==
  /\ currentVersion \in UpdateVersions \cup {Null}
  /\ newVersion \in UpdateVersions
  /\ updated = NoOutcome
  /\ ParseIdle /\ EncodeIdle /\ FlowIdle

UpdateBuild ==
  /\ updated = NoOutcome
  /\ updated' = updateVersionBuild(currentVersion, newVersion)
  /\ UNCHANGED <<currentVersion, newVersion, parseVars, encodeVars, flowVars>>

UpdateNext == UpdateBuild

SpecUpdate == UpdateInit /\ [][UpdateNext]_vars

----------------------------------------------------------------------------
(* versionToVersionCode on every pair of descriptors *)

Code(c) == [kind |-> "code", value |-> c]

EncodeFields == (0..MaxEncLow) \cup {10}
EncodeVersions ==
  {Version(ma, mi, pa, bu) : ma \in EncodeFields \cup {99}, mi \in EncodeFields,
                             pa \in EncodeFields, bu \in EncodeFields \cup {99}}

EncodeInit ==
  /\ versionA \in EncodeVersions
  /\ versionB \in EncodeVersions
  /\ codeA = NoOutcome /\ codeB = NoOutcome
  /\ ParseIdle /\ UpdateIdle /\ FlowIdle

Encode ==
  /\ codeA = NoOutcome
  /\ codeA' = Code(versionToVersionCode(versionA))
  /\ codeB' = Code(versionToVersionCode(versionB))
  /\ UNCHANGED <<versionA, versionB, parseVars, updateVars, flowVars>>

EncodeNext == Encode

SpecEncode == EncodeInit /\ [][EncodeNext]_vars

----------------------------------------------------------------------------
(* src/index.js: changeVersion on package.json, one Info.plist, build.gradle and  *)
(* AndroidManifest.xml                                                            *)

Dot == <<".">>

\* `${version.major}.${version.minor}.${version.patch}.${version.build}`
VersionName(version) ==
  NumberToString(version.major) \o Dot \o NumberToString(version.minor) \o Dot
    \o NumberToString(version.patch) \o Dot \o NumberToString(version.build)

\* a version string without a build token: "major.minor.patch"
ShortName(version) ==
  NumberToString(version.major) \o Dot \o NumberToString(version.minor) \o Dot
    \o NumberToString(version.patch)

getIOSVersionInfo(pl) ==
  IF pl = NoFile THEN Null ELSE versionStringToVersion(pl.CFBundleVersion)

setIOSApplicationVersion(s, version, pl) ==
  IF pl = NoFile THEN pl
  ELSE [CFBundleShortVersionString |-> s, CFBundleVersion |-> VersionName(version)]

\* defaultConfig.versionName is taken to be the text between the quotes
getAndroidVersionInfo(gr) ==
  IF gr = NoFile THEN Null ELSE versionStringToVersion(gr.versionName)

\* build.gradle after setAndroidApplicationVersion: /versionCode \d+/ is replaced
\* only where digits follow, /versionName "[^"]*"/ always
setAndroidBuildGradle(version, versionCode, gr) ==
  IF gr = NoFile THEN gr
  ELSE [versionCode |-> IF gr.versionCode # <<>> /\ AllDigits(gr.versionCode)
                        THEN NumberToString(versionCode) ELSE gr.versionCode,
        versionName |-> VersionName(version)]

\* AndroidManifest.xml after setAndroidApplicationVersion: /android:versionCode="\d*"/
setAndroidManifest(version, versionCode, mf) ==
  IF mf = NoFile THEN mf
  ELSE [versionCode |-> IF AllDigits(mf.versionCode)
                        THEN NumberToString(versionCode) ELSE mf.versionCode,
        versionName |-> VersionName(version)]

\* the version strings given to changeVersion, and the versions a project starts with
FlowVersionStrings ==
  {ShortName(Version(1, 0, pa, 1)) : pa \in {0, 1}}
    \cup {VersionName(Version(1, 0, 0, bu)) : bu \in 0..MaxFlowBuild}
FlowStored == {Version(1, 0, 0, bu) : bu \in 0..MaxFlowBuild}

PlistOf(version) ==
  [CFBundleShortVersionString |-> ShortName(version), CFBundleVersion |-> VersionName(version)]
GradleOf(version) ==
  [versionCode |-> NumberToString(versionToVersionCode(version)),
   versionName |-> VersionName(version)]

FlowInit ==
  /\ \E version \in FlowStored :
       /\ plist \in {NoFile, PlistOf(version)}
       /\ gradle \in {NoFile, GradleOf(version)}
       /\ manifest \in {NoFile, GradleOf(version)}
  /\ packageJson \in {NoFile, [version |-> <<>>]}
  /\ run = NoOutcome
  /\ ParseIdle /\ UpdateIdle /\ EncodeIdle

\* one run of changeVersion with version string s: setPackageVersion (process.exit
\* when package.json cannot be read), then updateIOSApplicationVersion, then
\* updateAndroidApplicationVersion; an exception of updateVersionBuild is caught
\* nowhere and ends the run.  run records the run: its version string and the one of
\* the run before it, and per platform the version read and updateVersionBuild's outcome
ChangeVersion(s) ==
  LET requested  == versionStringToVersion(s)
      iosCurrent == getIOSVersionInfo(plist)
      ios        == updateVersionBuild(iosCurrent, requested)
      androidCurrent == getAndroidVersionInfo(gradle)
      android    == updateVersionBuild(androidCurrent, requested)
      previous   == IF run = NoOutcome THEN <<>> ELSE run.versionString
  IN  /\ UNCHANGED <<parseVars, updateVars, encodeVars>>
      /\ IF packageJson = NoFile
         THEN /\ run' = [kind |-> "exit", versionString |-> s, previous |-> previous]
              /\ UNCHANGED <<packageJson, plist, gradle, manifest>>
         ELSE /\ packageJson' = [version |-> s]
              /\ IF ios.kind # "return"
                 THEN /\ run' = [kind |-> "ran", versionString |-> s, previous |-> previous,
                                 iosCurrent |-> iosCurrent, ios |-> ios,
                                 androidCurrent |-> Null, android |-> NoOutcome]
                      /\ UNCHANGED <<plist, gradle, manifest>>
                 ELSE /\ plist' = setIOSApplicationVersion(s, ios.version, plist)
                      /\ run' = [kind |-> "ran", versionString |-> s, previous |-> previous,
                                 iosCurrent |-> iosCurrent, ios |-> ios,
                                 androidCurrent |-> androidCurrent, android |-> android]
                      /\ IF android.kind # "return"
                         THEN UNCHANGED <<gradle, manifest>>
                         ELSE LET versionCode == versionToVersionCode(android.version)
                              IN  /\ gradle' = setAndroidBuildGradle(android.version, versionCode, gradle)
                                  /\ manifest' = setAndroidManifest(android.version, versionCode, manifest)

FlowNext == \E s \in FlowVersionStrings : ChangeVersion(s)

SpecFlow == FlowInit /\ [][FlowNext]_vars

----------------------------------------------------------------------------
(* Vocabulary of the properties *)

\* a and b agree on major, minor and patch
SameSemver(a, b) ==
  /\ a.major.val = b.major.val /\ a.minor.val = b.minor.val /\ a.patch.val = b.patch.val
  /\ ~a.major.nan /\ ~a.minor.nan /\ ~a.patch.nan
  /\ ~b.major.nan /\ ~b.minor.nan /\ ~b.patch.nan

\* the requested build is below the current one
LowerBuild(cur, new) == ~cur.build.nan /\ ~new.build.nan /\ new.build.val < cur.build.val

\* the build ceiling is hit: the incremented build would reach maxBuilds
CeilingHit(cur, new) ==
  SameSemver(cur, new) /\ LowerBuild(cur, new) /\ cur.build.val + 1 >= maxBuilds

IsNonNegativeInteger(a) == ~a.nan /\ a.val >= 0
AllNonNegative(v) ==
  /\ IsNonNegativeInteger(v.major) /\ IsNonNegativeInteger(v.minor)
  /\ IsNonNegativeInteger(v.patch) /\ IsNonNegativeInteger(v.build)

InCodeRange(v) ==
  \A a \in {v.major, v.minor, v.patch, v.build} : ~a.nan /\ a.val \in 0..99

\* (a.major, a.minor, a.patch, a.build) is lexicographically below b's
LexLess(a, b) ==
  \/ a.major.val < b.major.val
  \/ a.major.val = b.major.val /\ a.minor.val < b.minor.val
  \/ a.major.val = b.major.val /\ a.minor.val = b.minor.val /\ a.patch.val < b.patch.val
  \/ /\ a.major.val = b.major.val /\ a.minor.val = b.minor.val
     /\ a.patch.val = b.patch.val /\ a.build.val < b.build.val

\* the i-th field of a descriptor, in the order major, minor, patch, build
Field(v, i) == <<v.major, v.minor, v.patch, v.build>>[i]
FieldDefault == <<Num(0), Num(1), Num(0), Num(1)>>

\* s up to its fourth ".", all of s when it has fewer
RECURSIVE UpToDot(_, _, _)
UpToDot(s, i, dots) ==
  IF i > Len(s) THEN s
  ELSE IF s[i] = "." /\ dots = 1 THEN SubSeq(s, 1, i - 1)
  ELSE UpToDot(s, i + 1, IF s[i] = "." THEN dots - 1 ELSE dots)
FirstFourTokens(s) == UpToDot(s, 1, 4)

Str2 == <<"2">>
Str2Dot2 == <<"2", ".", "2">>

----------------------------------------------------------------------------
(* updateVersionBuild *)

\* C1: for a non-null current descriptor, when the build ceiling is not hit,
\* updateVersionBuild returns the requested descriptor with only build replaced by
\* current.build + 1 exactly when the two agree on major, minor and patch and the
\* requested build is below the current one, and returns the requested descriptor
\* with all four fields unchanged in every other case.
C1_IncrementRule ==
  (updated # NoOutcome /\ currentVersion # Null /\ ~CeilingHit(currentVersion, newVersion))
    => updated = Return(IF SameSemver(currentVersion, newVersion)
                           /\ LowerBuild(currentVersion, newVersion)
                        THEN [newVersion EXCEPT !.build = Num(currentVersion.build.val + 1)]
                        ELSE newVersion)

C1_Witness ==
  /\ currentVersion = Version(1, 0, 1, 2)
  /\ newVersion = Version(1, 0, 1, 1)
  /\ updated = Return(Version(1, 0, 1, 3))

\* C3: with a null current descriptor updateVersionBuild raises no error and returns
\* the requested descriptor unchanged.
C3_NullCurrentPassesThrough ==
  (updated # NoOutcome /\ currentVersion = Null) => updated = Return(newVersion)

\* C4: when current and requested agree on major, minor and patch, the requested
\* build is below the current one and current.build + 1 >= maxBuilds,
\* updateVersionBuild fails with an error and returns no descriptor; every
\* descriptor returned through the increment branch has build = current.build + 1,
\* below maxBuilds.
C4_Ceiling ==
  (updated # NoOutcome /\ currentVersion # Null)
    => /\ CeilingHit(currentVersion, newVersion) => updated = Throw("Error")
       /\ ( /\ updated.kind = "return"
            /\ SameSemver(currentVersion, newVersion)
            /\ LowerBuild(currentVersion, newVersion) )
          => /\ updated.version.build = Num(currentVersion.build.val + 1)
             /\ updated.version.build.val < maxBuilds

C4_Witness ==
  /\ currentVersion = Version(1, 0, 0, maxBuilds - 1)
  /\ newVersion = Version(1, 0, 0, 1)
  /\ updated = Throw("Error")

----------------------------------------------------------------------------
(* versionToVersionCode *)

\* C5: two descriptors whose fields all lie in 0..99 and that differ in a field are
\* encoded to different integers.
C5_Injective ==
  ( /\ codeA # NoOutcome /\ codeB # NoOutcome
    /\ InCodeRange(versionA) /\ InCodeRange(versionB)
    /\ versionA # versionB )
    => /\ ~codeA.value.nan /\ ~codeB.value.nan
       /\ codeA.value.val # codeB.value.val

C5_Witness ==
  /\ versionA = Version(0, 1, 0, 0) /\ codeA = Code(Num(10000))
  /\ versionB = Version(0, 0, 10, 0) /\ codeB = Code(Num(1000))

\* C6: for descriptors a and b whose fields all lie in 0..99, the code of a is below
\* the code of b if and only if a's fields are lexicographically below b's.
C6_OrderConsistent ==
  ( /\ codeA # NoOutcome /\ codeB # NoOutcome
    /\ InCodeRange(versionA) /\ InCodeRange(versionB) )
    => (Less(codeA.value, codeB.value) <=> LexLess(versionA, versionB))

C6_Witness ==
  /\ versionA = Version(0, 0, 0, 99) /\ codeA = Code(Num(99))
  /\ versionB = Version(0, 0, 1, 0) /\ codeB = Code(Num(100))

----------------------------------------------------------------------------
(* versionStringToVersion *)

\* C7: versionStringToVersion splits its input on ".", uses only the first four
\* tokens, and every position whose token is absent or empty gets the positional
\* default: major 0, minor 1, patch 0, build 1.
C7_Defaults ==
  parsed # NoOutcome
    => LET versionParts == Split(versionString)
       IN  /\ parsed.kind = "return"
           /\ \A i \in 1..4 :
                (i > Len(versionParts) \/ versionParts[i] = <<>>)
                  => Field(parsed.version, i) = FieldDefault[i]
           /\ parsed.version = versionStringToVersion(FirstFourTokens(versionString))
           /\ versionString = <<>> => parsed.version = Version(0, 1, 0, 1)

C7_Witness ==
  /\ versionString = Str2Dot2
  /\ parsed = Return(Version(2, 2, 0, 1))

\* C8: versionStringToVersion raises no error, and every token that does not begin
\* with a decimal digit yields the field value 0.
C8_MalformedIsZero ==
  parsed # NoOutcome
    => LET versionParts == Split(versionString)
       IN  /\ parsed.kind = "return"
           /\ \A i \in 1..4 :
                (i <= Len(versionParts) /\ versionParts[i] # <<>>
                   /\ ~IsDigit(versionParts[i][1]))
                  => Field(parsed.version, i) = Num(0)

\* C9: every descriptor produced by versionStringToVersion, and every descriptor
\* updateVersionBuild returns from such descriptors, has four non-negative integers.
C9_NonNegativeFields ==
  parsed # NoOutcome
    => /\ AllNonNegative(parsed.version)
       /\ \A s \in {<<>>, Str2, Str2Dot2} :
            LET outcome == updateVersionBuild(versionStringToVersion(s), parsed.version)
            IN  outcome.kind = "return" => AllNonNegative(outcome.version)

----------------------------------------------------------------------------
(* The update flow *)

\* the version requested by the last run
Requested == versionStringToVersion(run.versionString)

\* C2: in a run that repeats the version string of the run before it, a string
\* without a build token, at an unchanged major.minor.patch, the build written is
\* strictly greater than the build that was stored before the run.
C2_RepeatedRunBumpsBuild ==
  ( /\ run # NoOutcome /\ run.kind = "ran"
    /\ run.previous = run.versionString
    /\ Len(Split(run.versionString)) = 3
    /\ run.ios.kind = "return"
    /\ SameSemver(run.iosCurrent, Requested) )
    => versionStringToVersion(plist.CFBundleVersion).build.val > run.iosCurrent.build.val

\* C10: in every successful run whose requested major.minor.patch equals the stored
\* one, the build written to the platform file is greater than or equal to the build
\* stored before the run.
C10_BuildNeverDecreases ==
  (run # NoOutcome /\ run.kind = "ran")
    => /\ (run.ios.kind = "return" /\ SameSemver(run.iosCurrent, Requested))
            => versionStringToVersion(plist.CFBundleVersion).build.val
                 >= run.iosCurrent.build.val
       /\ (run.android.kind = "return" /\ SameSemver(run.androidCurrent, Requested))
            => versionStringToVersion(gradle.versionName).build.val
                 >= run.androidCurrent.build.val

C10_Witness ==
  /\ run # NoOutcome /\ run.kind = "ran"
  /\ run.ios.kind = "return" /\ run.android.kind = "return"
  /\ Requested = Version(1, 0, 0, 1)
  /\ run.iosCurrent = Version(1, 0, 0, 4)
  /\ plist.CFBundleVersion = VersionName(Version(1, 0, 0, 5))
  /\ gradle.versionName = VersionName(Version(1, 0, 0, 5))

====
